---- MODULE Spec2Model ----
(***************************************************************************)
(* The gallery page template: staggered reveal of the gallery cards, the   *)
(* IntersectionObserver entrance animation, and the two-phase modal        *)
(* choreography.  Two revisions of the template are modelled side by side: *)
(*   "galleries"  src/src/templates/galleries.js  (module-level delay)     *)
(*   "part_000"   src/unnamed/part_000            (delay passed as param)  *)
(*                                                                         *)
(* Time is in whole milliseconds (setTimeout converts its timeout to a     *)
(* long).  Lengths are in thousandths of a pixel so that the halves and    *)
(* the 620.666 of the source stay exact.  A scale factor is the exact      *)
(* ratio <<numerator, denominator>> of the division the source writes.     *)
(*                                                                         *)
(* Clicks and observer notifications arrive on a grid of delay / 3 ms and  *)
(* a pending render is committed before time moves on.  The inline styles  *)
(* of the cards and the mouse-move listeners are left out: no modelled     *)
(* handler reads them.  window.scrollY is read when the expand timer runs  *)
(* and is drawn from ScrollYs at that step.                                *)
(***************************************************************************)
EXTENDS Integers, Sequences, FiniteSets, TLC

\* ---------------------------------------------------------------- bounds

\* Number of '.gallery__card' elements on the page.
NumCards == 3
\* Events of the environment: clicks that change the active card, and entries
\* the IntersectionObserver delivers.
MaxEvents == 2

\* ------------------------------------------------------- program constants

cardSize == 275
delay == 300
modalWidth == 931
\* modalHeight = 620.666, in thousandths of a pixel.
modalHeightMilli == 620666

Cards == 1 .. NumCards
\* `null`: no active card / not a card.
NoCard == 0

\* ------------------------------------------------------------ JS numbers

\* A JS value that takes part in the timing arithmetic: a finite
\* non-negative number n/d, NaN, or undefined.
Num(n, d) == <<"num", n, d>>
NaN == <<"NaN">>
undefined == <<"undefined">>

IsNum(v) == v[1] = "num"

\* a * b  (ToNumber(undefined) is NaN, and NaN is absorbing).
JsMul(a, b) ==
    IF IsNum(a) /\ IsNum(b) THEN Num(a[2] * b[2], a[3] * b[3]) ELSE NaN

\* a / b for a finite non-zero b.
JsDiv(a, b) ==
    IF IsNum(a) /\ IsNum(b) THEN Num(a[2] * b[3], a[3] * b[2]) ELSE NaN

\* The conversion setTimeout applies to its timeout argument: NaN becomes 0,
\* a finite number is truncated to a whole number of milliseconds.
ToLong(v) == IF IsNum(v) THEN v[2] \div v[3] ELSE 0

\* The literal 3.666 of the reveal stagger.
Stagger == Num(3666, 1000)

\* ---------------------------------------------------------------- geometry

Px(n) == n * 1000
Ratio(a, b) == <<a, b>>
One == Ratio(1, 1)

\* DOM layouts the page may be rendered in (whole pixels): body size, the
\* document offset of '.gallery__cards', the modal's offsetWidth/Height and
\* each card's offset box.
Layouts ==
    { [ bodyWidth |-> 1280, bodyHeight |-> 2400, parentTop |-> 320,
        modalOffsetWidth |-> 931, modalOffsetHeight |-> 621,
        cardWidth |-> 275, cardHeight |-> 275,
        cardLeft |-> [c \in Cards |-> ((c - 1) % 2) * 300],
        cardTop |-> [c \in Cards |-> ((c - 1) \div 2) * 300] ],
      [ bodyWidth |-> 400, bodyHeight |-> 3000, parentTop |-> 260,
        modalOffsetWidth |-> 931, modalOffsetHeight |-> 621,
        cardWidth |-> 360, cardHeight |-> 240,
        cardLeft |-> [c \in Cards |-> 20],
        cardTop |-> [c \in Cards |-> (c - 1) * 260] ] }

\* Values window.scrollY may read.
ScrollYs == {0, 200}

Pages == {"galleries", "part_000"}

VARIABLES
    page,               \* which revision of the template is running
    layout,             \* the DOM layout (element of Layouts)
    activeCard,         \* useState(null): NoCard or a card
    depsCard,           \* [activeCard] of the last modal-effect run; -1 before mount
    needsRender,        \* a render (and its effects) is pending
    observing,          \* lazyLoad has installed the IntersectionObserver
    intersected,        \* cards the observer has reported as intersecting
    cardClasses,        \* classList of each card
    modalClasses,       \* classList of the modal
    modalTransform,     \* modal.style.transform
    containerTransform, \* modal.childNodes[0].style.transform
    timers,             \* pending setTimeout callbacks, in firing order
    events,             \* clicks and observer entries so far
    phase               \* milliseconds since the last instant of the event grid

vars == << page, layout, activeCard, depsCard, needsRender, observing,
           intersected, cardClasses, modalClasses, modalTransform,
           containerTransform, timers, events, phase >>

\* The transform has not been assigned by the page yet.
Unset == [translate |-> <<>>, scale |-> <<>>]

Init ==
    /\ page \in Pages
    /\ layout \in Layouts
    /\ activeCard = NoCard
    /\ depsCard = -1
    /\ needsRender = TRUE
    /\ observing = FALSE
    /\ intersected = {}
    /\ cardClasses = [c \in Cards |-> {}]
    /\ modalClasses = {}
    /\ modalTransform = Unset
    /\ containerTransform = <<>>
    /\ timers = << >>
    /\ events = 0
    /\ phase = 0

\* ------------------------------------------------------------- browser

\* setTimeout(callback, timeout): a timer running the callback, due after the
\* timeout converted to whole milliseconds.
setTimeout(callback, target, timeout) ==
    [callback |-> callback, target |-> target, due |-> ToLong(timeout)]

\* The timers `all`, listed in creation order, in the order the event loop
\* runs them: by deadline, and for equal deadlines by creation.
ByDeadline(all) ==
    LET Rank(k) == Cardinality({j \in 1 .. Len(all) :
                                  \/ all[j].due < all[k].due
                                  \/ all[j].due = all[k].due /\ j <= k})
    IN [p \in 1 .. Len(all) |-> all[CHOOSE k \in 1 .. Len(all) : Rank(k) = p]]

\* The pending timers ts joined by the timers `created` (in creation order).
Schedule(ts, created) ==
    CHOOSE queue \in {ByDeadline(all) : all \in {ts \o created}} : TRUE

PendingIn(ts, callback) == {k \in 1 .. Len(ts) : ts[k].callback = callback}

Pending(callback) == PendingIn(timers, callback)

IsVisible(c) == "is-visible" \in cardClasses[c]

\* What React passes to an effect function it calls: no argument at all, so
\* a parameter the function declares is undefined.
EffectArgument == undefined

\* ---------------------------------------------------------- card reveal

\* (index * delay) / 3.666
RevealTimeout(d, index) == JsDiv(JsMul(Num(index, 1), d), Stagger)

\* As displayGalleryCards, but walking the cards from the last to the first.
displayGalleryCardsReversed(d) ==
    [k \in 1 .. NumCards |->
        setTimeout("reveal", NumCards + 1 - k, RevealTimeout(d, NumCards - k))]

\* part_000: displayGalleryCards(delay): the timers cards.forEach creates, one
\* per card in index order.
displayGalleryCards(d) ==
    [k \in 1 .. NumCards |-> setTimeout("reveal", k, RevealTimeout(d, k - 1))]

\* galleries.js: displayGalleryCards(), reading the module-level delay.
displayGalleryCardsTemplate ==
    [k \in 1 .. NumCards |->
        setTimeout("reveal", k, RevealTimeout(Num(delay, 1), k - 1))]

\* part_000: animateCards(delay): the timers it creates.  lazyLoad installs
\* the observer with setObserverCallback(delay) (see ObserverNotify).
animateCards(d) == displayGalleryCards(d)

\* -------------------------------------------------------- observer callback

\* As EntryTriggers, but without the test of isIntersecting.
EntryAlwaysTriggers(entry) == TRUE

\* As EntryTriggers, but with the test negated.
EntryTriggersWhenOutside(entry) == ~entry.isIntersecting

\* if (entry.isIntersecting)
EntryTriggers(entry) == entry.isIntersecting

\* delay / 3
EnterTimeout(d) == JsDiv(d, Num(3, 1))

\* part_000: setObserverCallback(delay)(entries): the timers entries.forEach
\* creates, one per entry that triggers, in the order of the entries.
setObserverCallback(d, entries) ==
    LET triggering == SelectSeq(entries, EntryTriggers)
    IN [k \in 1 .. Len(triggering) |->
           setTimeout("enter", triggering[k].target, EnterTimeout(d))]

\* galleries.js: observerCallback(entries), reading the module-level delay.
observerCallback(entries) ==
    LET triggering == SelectSeq(entries, EntryTriggers)
    IN [k \in 1 .. Len(triggering) |->
           setTimeout("enter", triggering[k].target, EnterTimeout(Num(delay, 1)))]

\* ------------------------------------------------------------------ modal

\* As ExpandTimeout, but without the doubling.
ExpandTimeoutSingle(d) == d

\* delay * 2
ExpandTimeout(d) == JsMul(d, Num(2, 1))

\* The modal scaled down to the target: scaleX(tW / mW) scaleY(tH / mH).
ContractedModalScale(mW, mH, tW, tH) == << Ratio(tW, mW), Ratio(tH, mH) >>

\* As ContractedContainerScale, but with the factors of the modal itself.
ContainerScaledLikeModal(mW, mH, tW, tH) == << Ratio(tW, mW), Ratio(tH, mH) >>

\* The inner image container scaled up: scaleX(mW / tW) scaleY(mH / tH).
ContractedContainerScale(mW, mH, tW, tH) == << Ratio(mW, tW), Ratio(mH, tH) >>

\* target.offsetLeft - modal width / 2 + target.offsetWidth / 2  (and Y alike)
OverTarget(offset, modalSize, targetSize) ==
    Px(offset) - modalSize \div 2 + Px(targetSize) \div 2

\* body size / 2 - modal size / 2
Centre(bodySize, modalSize) == Px(bodySize) \div 2 - modalSize \div 2

\* getBoundingClientRect().top of '.gallery__cards': relative to the viewport.
RectTop(sy) == layout.parentTop - sy

\* centerY: ... - getBoundingClientRect().top / 2 + window.scrollY / 2
CentreY(modalSize, sy) ==
    Centre(layout.bodyHeight, modalSize) - Px(RectTop(sy)) \div 2 + Px(sy) \div 2

\* part_000: animateModal(delay, modal, modalParent, target); ts are the
\* timers pending after the card effect of the same commit.
animateModal(d, target, ts) ==
    IF target = NoCard
    THEN /\ timers' = ts
         /\ UNCHANGED << modalClasses, modalTransform, containerTransform >>
    ELSE LET mW == Px(layout.modalOffsetWidth)
             mH == Px(layout.modalOffsetHeight)
             tW == Px(layout.cardWidth)
             tH == Px(layout.cardHeight)
         IN /\ modalTransform' =
                 [translate |-> << OverTarget(layout.cardLeft[target], mW, layout.cardWidth),
                                   OverTarget(layout.cardTop[target], mH, layout.cardHeight) >>,
                  scale |-> ContractedModalScale(mW, mH, tW, tH)]
            /\ containerTransform' = ContractedContainerScale(mW, mH, tW, tH)
            /\ timers' = Schedule(ts, << setTimeout("expand", NoCard, ExpandTimeout(d)) >>)
            /\ UNCHANGED modalClasses

\* As expandModal, but leaving the image container at its contracted scale.
expandModalOnly(sy) ==
    /\ modalTransform' =
         [translate |-> << (Px(layout.bodyWidth) - Px(layout.modalOffsetWidth)) \div 2 + 500,
                           (Px(layout.bodyHeight) - Px(layout.modalOffsetHeight)
                              - Px(layout.parentTop)) \div 2 + Px(sy) >>,
          scale |-> << One, One >>]
    /\ UNCHANGED << containerTransform, modalClasses >>

\* part_000: the callback animateModal hands to setTimeout.
expandModal(sy) ==
    /\ modalTransform' =
         [translate |-> << Centre(layout.bodyWidth, Px(layout.modalOffsetWidth)) + 500,
                           CentreY(Px(layout.modalOffsetHeight), sy) >>,
          scale |-> << One, One >>]
    /\ containerTransform' = << One, One >>
    /\ UNCHANGED modalClasses

\* galleries.js: the modal effect, after the card effect of the same commit
\* left the timers ts.
modalEffect(ts) ==
    IF activeCard = NoCard
    THEN /\ timers' = ts
         /\ UNCHANGED << modalClasses, modalTransform, containerTransform >>
    ELSE /\ modalClasses' = modalClasses \ {"is-active"}
         /\ modalTransform' =
              [translate |-> << OverTarget(layout.cardLeft[activeCard], Px(modalWidth), layout.cardWidth),
                                OverTarget(layout.cardTop[activeCard], modalHeightMilli, layout.cardHeight) >>,
               scale |-> ContractedModalScale(Px(modalWidth), modalHeightMilli,
                                              Px(cardSize), Px(cardSize))]
         /\ containerTransform' =
              ContractedContainerScale(Px(modalWidth), modalHeightMilli,
                                       Px(cardSize), Px(cardSize))
         /\ timers' = Schedule(ts, << setTimeout("expand", NoCard,
                                             ExpandTimeout(Num(delay, 1))) >>)

\* galleries.js: the callback the modal effect hands to setTimeout.
expandModalTemplate(sy) ==
    /\ modalClasses' = modalClasses \cup {"is-active"}
    /\ modalTransform' =
         [translate |-> << Centre(layout.bodyWidth, Px(modalWidth)) + 500,
                           CentreY(modalHeightMilli, sy) >>,
          scale |-> << One, One >>]
    /\ containerTransform' = << One, One >>

\* ---------------------------------------------------------------- actions

\* The user and the observer act at the instants of a grid of TimeStep
\* milliseconds; timers fire at their exact deadlines in between.
TimeStep == delay \div 3

OnGrid == phase = 0


\* React commits a render and runs the component's effects in the order they
\* are declared: the card effect (no dependency list: every render), then the
\* modal effect (dependency list [activeCard]: on mount and when it changed).
Commit ==
    /\ needsRender
    /\ needsRender' = FALSE
    /\ depsCard' = activeCard
    /\ observing' = TRUE
    /\ \E ts \in {Schedule(timers, IF page = "part_000"
                                   THEN animateCards(EffectArgument)
                                   ELSE displayGalleryCardsTemplate)} :
          IF depsCard # activeCard
          THEN IF page = "part_000"
               THEN animateModal(Num(delay, 1), activeCard, ts)
               ELSE modalEffect(ts)
          ELSE /\ timers' = ts
               /\ UNCHANGED << modalClasses, modalTransform, containerTransform >>
    /\ UNCHANGED << page, layout, activeCard, intersected, cardClasses, events,
                    phase >>

\* onClick of card c: setActiveCard(cardRefs[index].current).  Setting the
\* state it already holds schedules nothing.  A card that is still
\* display: none cannot be clicked.
Click(c) ==
    /\ OnGrid
    /\ events < MaxEvents
    /\ IsVisible(c)
    /\ activeCard # c
    /\ events' = events + 1
    /\ activeCard' = c
    /\ needsRender' = TRUE
    /\ UNCHANGED << page, layout, depsCard, observing, intersected, cardClasses,
                    modalClasses, modalTransform, containerTransform, timers,
                    phase >>

\* Entries the IntersectionObserver may deliver now: a card is reported as
\* intersecting only once its display is no longer none.
Deliverable ==
    {e \in [target : Cards, isIntersecting : BOOLEAN] :
        e.isIntersecting => IsVisible(e.target)}

Intersecting(entries) ==
    {entries[k].target : k \in {j \in 1 .. Len(entries) : entries[j].isIntersecting}}

\* The IntersectionObserver installed by lazyLoad calls the page's callback
\* with the entries of one notification.
ObserverNotify(entries) ==
    /\ OnGrid
    /\ observing
    /\ events + Len(entries) <= MaxEvents
    /\ events' = events + Len(entries)
    /\ intersected' = intersected \cup Intersecting(entries)
    /\ timers' = Schedule(timers,
                          IF page = "part_000"
                          THEN setObserverCallback(EffectArgument, entries)
                          ELSE observerCallback(entries))
    /\ UNCHANGED << page, layout, activeCard, depsCard, needsRender, observing,
                    cardClasses, modalClasses, modalTransform,
                    containerTransform, phase >>

ObserverNotifies ==
    \E n \in 1 .. MaxEvents - events :
        \E entries \in [1 .. n -> Deliverable] : ObserverNotify(entries)

\* The event loop runs the callback of the first timer, once it is due; sy is
\* what window.scrollY reads at that moment.
FireTimer(sy) ==
    /\ timers # << >>
    /\ Head(timers).due = 0
    /\ LET t == Head(timers)
       IN /\ timers' = Tail(timers)
          /\ IF t.callback = "reveal"
             THEN /\ cardClasses' =
                       [cardClasses EXCEPT ![t.target] = @ \cup {"is-visible"}]
                  /\ UNCHANGED << modalClasses, modalTransform, containerTransform >>
             ELSE IF t.callback = "enter"
             THEN /\ cardClasses' =
                       [cardClasses EXCEPT ![t.target] = @ \cup {"has-entered"}]
                  /\ UNCHANGED << modalClasses, modalTransform, containerTransform >>
             ELSE /\ IF page = "part_000"
                     THEN expandModal(sy) ELSE expandModalTemplate(sy)
                  /\ UNCHANGED cardClasses
    /\ UNCHANGED << page, layout, activeCard, depsCard, needsRender, observing,
                    intersected, events, phase >>

TimerFires == \E sy \in ScrollYs : FireTimer(sy)

\* d milliseconds pass.  No timer is overdue, a pending render is committed
\* before the clock moves, and the clock stops at every instant of the grid.
Advance(d) ==
    /\ ~needsRender
    /\ d > 0
    /\ phase + d <= TimeStep
    /\ timers # << >> => d <= Head(timers).due
    /\ phase' = (phase + d) % TimeStep
    /\ timers' = [k \in 1 .. Len(timers) |-> [timers[k] EXCEPT !.due = @ - d]]
    /\ UNCHANGED << page, layout, activeCard, depsCard, needsRender, observing,
                    intersected, cardClasses, modalClasses, modalTransform,
                    containerTransform, events >>

\* The time to the next deadline or the next instant of the grid, whichever
\* comes first.
NextStop ==
    IF timers # << >> /\ Head(timers).due < TimeStep - phase
    THEN Head(timers).due
    ELSE TimeStep - phase

\* Time passes while there is something left to wait for.
TimePasses ==
    /\ timers # << >> \/ phase # 0
    /\ Advance(NextStop)

Next ==
    \/ Commit
    \/ \E c \in Cards : Click(c)
    \/ ObserverNotifies
    \/ TimerFires
    \/ TimePasses

Spec == Init /\ [][Next]_vars

\* The event loop runs due timers, time passes, and React flushes a pending
\* render.
FairSpec ==
    /\ Spec
    /\ WF_vars(TimerFires)
    /\ WF_vars(TimePasses)
    /\ WF_vars(Commit)

\* ----------------------------------------------------------------- claims

\* The modal's width and height as the page in use measures them, in
\* thousandths of a pixel.
ModalW == IF page = "part_000" THEN 1000 * layout.modalOffsetWidth ELSE 1000 * modalWidth
ModalH == IF page = "part_000" THEN 1000 * layout.modalOffsetHeight ELSE modalHeightMilli

\* The size the modal is scaled down to.
SmallW == IF page = "part_000" THEN 1000 * layout.cardWidth ELSE 1000 * cardSize
SmallH == IF page = "part_000" THEN 1000 * layout.cardHeight ELSE 1000 * cardSize

\* The modal lies over card c, scaled down to it, its container scaled up.
IsContractedOver(c) ==
    /\ modalTransform.translate =
         << 1000 * layout.cardLeft[c] + (1000 * layout.cardWidth) \div 2 - ModalW \div 2,
            1000 * layout.cardTop[c] + (1000 * layout.cardHeight) \div 2 - ModalH \div 2 >>
    /\ modalTransform.scale = << << SmallW, ModalW >>, << SmallH, ModalH >> >>
    /\ containerTransform = << << ModalW, SmallW >>, << ModalH, SmallH >> >>
    /\ "is-active" \notin modalClasses

\* The modal is at the centre of the screen at full size.
IsExpanded ==
    /\ modalTransform.scale = << << 1, 1 >>, << 1, 1 >> >>
    /\ containerTransform = << << 1, 1 >>, << 1, 1 >> >>
    /\ \E sy \in ScrollYs :
          modalTransform.translate =
            << (1000 * layout.bodyWidth - ModalW) \div 2 + 500,
               (1000 * layout.bodyHeight - ModalH - 1000 * layout.parentTop) \div 2
                 + 1000 * sy >>
    /\ page = "galleries" => "is-active" \in modalClasses

\* The step is a commit in which the modal effect runs for a card.
ModalEffectRuns ==
    /\ needsRender /\ ~needsRender'
    /\ activeCard # NoCard
    /\ depsCard # activeCard

\* The step runs the callback of an expand timer.
ExpandTimerFires ==
    /\ timers # << >>
    /\ Head(timers).callback = "expand"
    /\ Head(timers).due = 0
    /\ timers' = Tail(timers)

\* C1: once a card is active, the modal eventually reaches the expanded state
\* (at the screen centre, scale 1 on both axes, container at scale 1, and in
\* galleries.js with the class 'is-active'); each contraction is followed by
\* an expansion; and once the render is committed and no expand timer is
\* pending, the modal is expanded.
C1_ModalEventuallyExpanded ==
    /\ (activeCard # NoCard) ~> IsExpanded
    /\ (modalTransform # Unset /\ ~IsExpanded) ~> IsExpanded
    /\ [](activeCard # NoCard /\ ~needsRender /\ Pending("expand") = {}
            => IsExpanded)

\* Two clicks have been made and every timer has fired: the modal is expanded
\* for the card clicked last.
C1_Witness ==
    /\ events >= 2
    /\ activeCard # NoCard
    /\ depsCard = activeCard
    /\ timers = << >>
    /\ IsExpanded

\* C2: when the modal effect runs for a card, the same step puts the modal
\* over that card, scaled down to it, and schedules exactly one timer, due
\* after delay * 2 = 600 ms; the modal becomes expanded only in a later step
\* that runs such a timer, so no expand timer is pending before a contraction.
C2_TwoPhaseChoreography ==
    [][ /\ ModalEffectRuns =>
              /\ IsContractedOver(activeCard)'
              /\ ~IsExpanded'
              /\ Cardinality(PendingIn(timers', "expand"))
                   = Cardinality(Pending("expand")) + 1
              /\ \E k \in PendingIn(timers', "expand") : timers'[k].due = 2 * delay
        /\ (~IsExpanded /\ IsExpanded') => ExpandTimerFires
        /\ Pending("expand")' # {} => modalTransform' # Unset ]_vars

\* The modal lies contracted over the active card while the timer of that run
\* has its whole 600 ms to go.
C2_Witness ==
    /\ activeCard # NoCard
    /\ IsContractedOver(activeCard)
    /\ \E k \in Pending("expand") : timers[k].due = 2 * delay

\* The timeout of the reveal timer of the card at index i:
\* (i * 300) / 3.666 in whole milliseconds.
StaggerMs(i) == (i * delay * 1000) \div 3666

\* C3: each time the card effect runs, the card at index i gets a reveal timer
\* with timeout (i * delay) / 3.666 for delay = 300: 0 for index 0 and
\* strictly increasing in i.
C3_StaggeredReveal ==
    [][ (needsRender /\ ~needsRender') =>
           \A c \in Cards :
              \E k \in PendingIn(timers', "reveal") :
                 /\ timers'[k].target = c
                 /\ timers'[k].due = StaggerMs(c - 1) ]_vars

\* C4: cards become visible in index order: a visible card has every card of a
\* smaller index visible too.
C4_SequentialReveal ==
    \A i, j \in Cards : (i < j /\ IsVisible(j)) => IsVisible(i)

\* A card is visible while a later card is not yet.
C4_Witness ==
    \E i, j \in Cards : i < j /\ IsVisible(i) /\ ~IsVisible(j)

\* C5: a card that carries 'has-entered' carries 'is-visible'.
C5_RevealPrecedesEntrance ==
    \A c \in Cards : "has-entered" \in cardClasses[c] => IsVisible(c)

\* A card has entered while another card is still hidden.
C5_Witness ==
    \E c, h \in Cards : "has-entered" \in cardClasses[c] /\ ~IsVisible(h)

\* The two scale factors are reciprocal: one is x / y, the other y / x.
Reciprocal(a, b) == a[1] = b[2] /\ a[2] = b[1]

\* C6: once the modal effect has run for a card, the scale of the modal and
\* the scale of its image container are reciprocal on each axis, and the two
\* transforms are set together.
C6_InverseScaling ==
    /\ modalTransform = Unset <=> containerTransform = << >>
    /\ modalTransform # Unset =>
          /\ Reciprocal(modalTransform.scale[1], containerTransform[1])
          /\ Reciprocal(modalTransform.scale[2], containerTransform[2])

\* The modal is scaled down (not at full size) and its container scaled up.
C6_Witness ==
    /\ modalTransform # Unset
    /\ modalTransform.scale[1] # << 1, 1 >>
    /\ containerTransform[1][1] > containerTransform[1][2]

C8_NoEarlyExpansion ==
    Pending("expand") # {} => ~IsExpanded

====
